---- MODULE Spec2Model ----
(***************************************************************************)
(* Model of stockmine.py: the retry loop of Main.run (run_session, backoff) *)
(* and the per-tweet handler Main.twitter_callback.                         *)
(*                                                                          *)
(* Time is counted in ticks of BACKOFF_STEP_S = 0.1 s, so that every delay  *)
(* 0.1 * 2^tries of the source is the integer 2^tries; the clock read by    *)
(* datetime.now() never runs backwards.                                     *)
(*                                                                          *)
(* Spec follows Main.run from one session to the next, a session being the  *)
(* time it blocks and the way it ends.  SpecCallback follows the tweets     *)
(* that one session delivers to twitter_callback.  SpecInterrupt is Spec    *)
(* with a user who may interrupt the process, under the try/finally of the  *)
(* main block.  SpecFile is SpecCallback together with the one-shot symbol  *)
(* lookup writing the same file.                                            *)
(***************************************************************************)
EXTENDS Integers, Sequences, FiniteSets, TLC

VARIABLES
    pc,             \* position of Main.run: "session", "sleep", "done", "raised"
    tries,          \* local tries of Main.run
    backoff_start,  \* local backoff_start of Main.run (NoTime while unbound)
    now,            \* local now of Main.run (NoTime while unbound)
    clock,          \* the wall clock read by datetime.now()
    delay,          \* the last delay passed to sleep() by Main.backoff
    prev_now,       \* history: the value of now at the previous session return
    sessions,       \* history: number of calls of run_session
    sleeps,         \* history: number of calls of sleep
    sleep_sum,      \* history: sum of the delays passed to sleep
    resets,         \* history: number of times the reset rule fired
    gaps_under,     \* history: every return-to-return interval was < BACKOFF_RESET_S
    required_keywords,  \* args.required_keywords ("" when not given)
    ignored_keywords,   \* args.ignored_keywords ("" when not given)
    file,           \* the content of the file FILE_NAME
    file_exists,    \* whether the file FILE_NAME exists
    streaming,      \* whether the transport still delivers tweets
    events,         \* history: number of calls of twitter_callback
    header_writes,  \* history: number of times the header line was written
    cb,             \* history: what the last call of twitter_callback did
    file_before,    \* history: the file's content before the last write operation
    lookups,        \* history: number of one-shot symbol lookups run
    monitor,        \* the Monitor of the main block: "running" or "stopped"
    interrupted     \* history: the user has interrupted the process

runVars == <<pc, tries, backoff_start, now, clock, delay,
             prev_now, sessions, sleeps, sleep_sum, resets, gaps_under>>

cbVars == <<file, file_exists, streaming, events, header_writes, cb,
            file_before, lookups>>

args == <<required_keywords, ignored_keywords>>

mainVars == <<monitor, interrupted>>

vars == <<runVars, args, cbVars, mainVars>>

(***************************************************************************)
(* Constants of the program.                                                *)
(***************************************************************************)
\* Ticks per second: the time unit is BACKOFF_STEP_S = 0.1 s.
TicksPerSecond == 10

\* BACKOFF_STEP_S = 0.1 (seconds), i.e. one tick.
BACKOFF_STEP_S == 1

MAX_TRIES == 12

\* BACKOFF_RESET_S = 30 * 60 (seconds), in ticks.
BACKOFF_RESET_S == 30 * 60 * TicksPerSecond

\* A local that has not been assigned yet.
NoTime == 0 - 1

(***************************************************************************)
(* Bounds of the model.                                                     *)
(***************************************************************************)
\* The wall clock is not followed beyond this many ticks.
MaxClock == 45000

\* How long a session may block before it ends, in ticks: at once, ten
\* minutes, exactly the reset threshold less the first delay, and more than
\* the reset threshold.  The time sleep() takes beyond its delay is part of
\* the next session's duration.
Durations == {0, 6000, BACKOFF_RESET_S - 1, BACKOFF_RESET_S + 1}

\* The ways Twitter.start_streaming can end: it returns, or it fails with an
\* error.
StartStreamingOutcomes == {"returned", "raised"}

\* backoff with a delay that grows linearly.
backoff_linear(t) == BACKOFF_STEP_S * 2 * t

(***************************************************************************)
(* Main.backoff: the delay computed from tries.                             *)
(***************************************************************************)
backoff(t) == BACKOFF_STEP_S * 2^t

\* The reset rule with the threshold doubled.
ResetDue_doubled(n, start) == n - start > 2 * BACKOFF_RESET_S

\* The reset rule firing after any gap.
ResetDue_any_gap(n, start) == n - start >= 0

\* The reset rule never firing.
ResetDue_never(n, start) == FALSE

\* The reset rule of Main.run: the last error was long ago.
ResetDue(n, start) == n - start > BACKOFF_RESET_S

\* The give-up rule one try late.
GiveUp_late(t) == t > MAX_TRIES

\* The give-up rule of Main.run.
GiveUp(t) == t >= MAX_TRIES


(***************************************************************************)
(* Text functions of Main.twitter_callback, on strings, character by        *)
(* character.                                                               *)
(***************************************************************************)
Rest(s, k) == SubSeq(s, k + 1, Len(s))

\* The single characters removed by the first re.sub: [%|$.,!:@] ( ) # + ? -
TokenPunctuation ==
    {"%", "|", "$", ".", ",", "!", ":", "@", "(", ")", "#", "+", "?", "-"}

\* The two-character sequences removed by the first re.sub.  The source also
\* removes a pair of backquotes; a string of this module cannot hold a
\* backquote, and no text of the model contains one.
TokenQuotes == {"''"}

\* re.sub of the characters of TokenPunctuation and the pairs of TokenQuotes
RECURSIVE text_for_tokens(_)
text_for_tokens(s) ==
    IF s = "" THEN ""
    ELSE IF SubSeq(s, 1, 1) \in TokenPunctuation THEN text_for_tokens(Rest(s, 1))
    ELSE IF Len(s) >= 2 /\ SubSeq(s, 1, 2) \in TokenQuotes
         THEN text_for_tokens(Rest(s, 2))
    ELSE SubSeq(s, 1, 1) \o text_for_tokens(Rest(s, 1))

\* nltk.word_tokenize on text made of letters, digits and blanks: the
\* maximal runs of non-blank characters, in order.  cur is the run read so far.
RECURSIVE SplitWords(_, _)
SplitWords(s, cur) ==
    IF s = "" THEN (IF cur = "" THEN <<>> ELSE <<cur>>)
    ELSE IF SubSeq(s, 1, 1) = " "
         THEN (IF cur = "" THEN <<>> ELSE <<cur>>) \o SplitWords(Rest(s, 1), "")
    ELSE SplitWords(Rest(s, 1), cur \o SubSeq(s, 1, 1))

word_tokenize(s) == SplitWords(s, "")

\* str.split(','): the fields between commas, empty fields kept.
RECURSIVE SplitCommas(_, _)
SplitCommas(s, cur) ==
    IF s = "" THEN <<cur>>
    ELSE IF SubSeq(s, 1, 1) = ","
         THEN <<cur>> \o SplitCommas(Rest(s, 1), "")
    ELSE SplitCommas(Rest(s, 1), cur \o SubSeq(s, 1, 1))

split(s) == SplitCommas(s, "")

Elements(seq) == {seq[i] : i \in 1..Len(seq)}

\* The tag characters without the dollar sign.
TagCharacters_no_dollar == {"#", "|", "@"}

\* The characters that start a tag in the second re.sub: [#|@$]
TagCharacters == {"#", "|", "@", "$"}

\* s without its leading run of non-blank characters (\S+ is greedy).
RECURSIVE SkipNonSpace(_)
SkipNonSpace(s) ==
    IF s = "" \/ SubSeq(s, 1, 1) = " " THEN s ELSE SkipNonSpace(Rest(s, 1))

\* re.sub(r"[#|@$]\S+", "", s)
RECURSIVE strip_tags(_)
strip_tags(s) ==
    IF s = "" THEN ""
    ELSE IF /\ SubSeq(s, 1, 1) \in TagCharacters
            /\ Len(s) >= 2
            /\ SubSeq(s, 2, 2) # " "
         THEN strip_tags(SkipNonSpace(Rest(s, 1)))
    ELSE SubSeq(s, 1, 1) \o strip_tags(Rest(s, 1))

\* str.strip() on text whose only whitespace is the blank.
RECURSIVE lstrip(_)
lstrip(s) == IF s # "" /\ SubSeq(s, 1, 1) = " " THEN lstrip(Rest(s, 1)) ELSE s

RECURSIVE rstrip(_)
rstrip(s) ==
    IF s # "" /\ SubSeq(s, Len(s), Len(s)) = " "
    THEN rstrip(SubSeq(s, 1, Len(s) - 1)) ELSE s

strip(s) == rstrip(lstrip(s))

\* needle in hay (Python's substring test)
Contains(hay, needle) ==
    \E i \in 1..(Len(hay) - Len(needle) + 1) :
        SubSeq(hay, i, i + Len(needle) - 1) = needle

\* The number of occurrences of needle in hay, overlapping ones included.
Occurrences(hay, needle) ==
    Cardinality({i \in 1..(Len(hay) - Len(needle) + 1) :
                    SubSeq(hay, i, i + Len(needle) - 1) = needle})

\* ",".join(seq)
RECURSIVE join(_)
join(seq) ==
    IF seq = <<>> THEN ""
    ELSE IF Len(seq) = 1 THEN seq[1]
    ELSE seq[1] \o "," \o join(Tail(seq))


(***************************************************************************)
(* Inputs of Main.twitter_callback.                                         *)
(***************************************************************************)
\* At most this many tweets are delivered.
MaxEvents == 2

\* The values of --required-keywords and --ignored-keywords.
RequiredChoices == {"", "TSLA", "Apple,TSLA", "tesla"}

IgnoredChoices == {"", "giveaway"}

\* The texts of the tweets delivered.
Texts ==
    { "Tesla $TSLA surges",
      "#TSLA up",
      "Tesla #TSLA @elon",
      "Giveaway Tesla TSLA",
      "giveaway Tesla TSLA",
      "Apple and Tesla",
      "Tesla symbol,name,sentiment,opinion,tweet,url" }

Urls == {"http://t.co/1"}

\* The one-shot lookups that may run on the same file.
MaxLookups == 2

\* The values of --symbol.
LookupSymbols == {"TSLA", "AAPL"}

\* Where a call of twitter_callback can fail: nowhere, in the tokenizer, in
\* find_companies, in analyze, in open, or in the first write.
Faults == {"none", "tokenize", "find_companies", "analyze", "open", "write"}

\* The ways the transport can go on after an error left its callback: it
\* keeps delivering, or the stream is over.
TransportAfterError == {TRUE, FALSE}

(***************************************************************************)
(* Analysis.find_companies and Analysis.analyze.                            *)
(***************************************************************************)
KnownCompanies ==
    << [word |-> "Tesla", symbol |-> "TSLA", name |-> "Tesla Inc."],
       [word |-> "Apple", symbol |-> "AAPL", name |-> "Apple Inc."] >>

Symbols == {KnownCompanies[i].symbol : i \in 1..Len(KnownCompanies)}

Sentiments == {"positive", "negative"}

\* The symbols analyze may leave out of its result.
LackingChoices == {{}, {"TSLA"}, {"AAPL"}}

Opinion(sentiment) == IF sentiment = "positive" THEN "bullish" ELSE "bearish"

\* The mentions found in a tweet: one per known company named in the text,
\* each with the text and the url of the tweet.
find_companies(text, url) ==
    LET Named(c) == Contains(text, c.word)
        hit == SelectSeq(KnownCompanies, Named)
    IN  [i \in 1..Len(hit) |->
            [symbol |-> hit[i].symbol, name |-> hit[i].name,
             tweet |-> text, url |-> url]]

\* The result of analyze: for each symbol of the mentions that is not in
\* lacking, the values of sentiment and opinion in this order.
analyze(companies, sentiment, lacking) ==
    [sym \in {companies[i].symbol : i \in 1..Len(companies)} \ lacking |->
        <<sentiment, Opinion(sentiment)>>]

(***************************************************************************)
(* Main.twitter_callback.                                                   *)
(***************************************************************************)
fields == <<"symbol", "name", "sentiment", "opinion", "tweet", "url">>

Header == join(fields)

\* The text handed to find_companies and stored back in tweet['text'].
StripHashTags(raw) == strip(strip_tags(raw))

\* The tokens of the text after its tags were stripped.
tokens_of_stripped(raw) == word_tokenize(text_for_tokens(StripHashTags(raw)))

\* The tokens the filters look at.
tokens_of(raw) == word_tokenize(text_for_tokens(raw))

\* The required filter with its test inverted.
SkipRequired_inverted(tokens) ==
    /\ required_keywords # ""
    /\ \A i \in 1..Len(tokens) :
          tokens[i] \in Elements(split(required_keywords))

\* Required keywords are given and no token is one of them.
SkipRequired(tokens) ==
    /\ required_keywords # ""
    /\ \A i \in 1..Len(tokens) :
          tokens[i] \notin Elements(split(required_keywords))

\* The letters, for the comparison of strings without regard to case.
UpperCase == "ABCDEFGHIJKLMNOPQRSTUVWXYZ"

LowerCase == "abcdefghijklmnopqrstuvwxyz"

LowerChar(c) ==
    IF \E i \in 1..Len(UpperCase) : SubSeq(UpperCase, i, i) = c
    THEN LET i == CHOOSE i \in 1..Len(UpperCase) : SubSeq(UpperCase, i, i) = c
         IN  SubSeq(LowerCase, i, i)
    ELSE c

RECURSIVE lower(_)
lower(s) == IF s = "" THEN "" ELSE LowerChar(SubSeq(s, 1, 1)) \o lower(Rest(s, 1))

\* The ignored filter comparing without regard to case.
SkipIgnored_nocase(tokens) ==
    /\ ignored_keywords # ""
    /\ \E i \in 1..Len(tokens) :
          lower(tokens[i]) \in {lower(k) : k \in Elements(split(ignored_keywords))}

\* The ignored filter asking for every token to be ignored.
SkipIgnored_all(tokens) ==
    /\ ignored_keywords # ""
    /\ \A i \in 1..Len(tokens) :
          tokens[i] \in Elements(split(ignored_keywords))

\* Ignored keywords are given and some token is one of them.
SkipIgnored(tokens) ==
    /\ ignored_keywords # ""
    /\ \E i \in 1..Len(tokens) :
          tokens[i] \in Elements(split(ignored_keywords))

\* The header test looking for the fields joined by ", ".
HeaderMissing_spaced(content) ==
    ~Contains(content, "symbol, name, sentiment, opinion, tweet, url")

\* The header is written when the file's content does not hold it.
HeaderMissing(content) == ~Contains(content, Header)

\* A row with the tweet and the url in each other's place.
Row_swapped(company, results) ==
    company.symbol \o "," \o company.name \o "," \o
    join(results[company.symbol]) \o "," \o company.url \o "," \o company.tweet

\* One row of the file.
Row(company, results) ==
    company.symbol \o "," \o company.name \o "," \o
    join(results[company.symbol]) \o "," \o company.tweet \o "," \o company.url

\* The loop over the companies running from the last company to the first.
RECURSIVE WriteRows_reversed(_, _)
WriteRows_reversed(companies, results) ==
    IF companies = <<>> THEN [rows |-> <<>>, raised |-> FALSE]
    ELSE IF Head(companies).symbol \notin DOMAIN results
         THEN [rows |-> <<>>, raised |-> TRUE]
    ELSE LET rest == WriteRows_reversed(Tail(companies), results)
         IN  [rows |-> rest.rows \o <<Row(Head(companies), results)>>,
              raised |-> rest.raised]

\* The loop over the companies: the rows written before the loop ends or
\* results[company['symbol']] raises KeyError.
RECURSIVE WriteRows(_, _)
WriteRows(companies, results) ==
    IF companies = <<>> THEN [rows |-> <<>>, raised |-> FALSE]
    ELSE IF Head(companies).symbol \notin DOMAIN results
         THEN [rows |-> <<>>, raised |-> TRUE]
    ELSE LET rest == WriteRows(Tail(companies), results)
         IN  [rows |-> <<Row(Head(companies), results)>> \o rest.rows,
              raised |-> rest.raised]

\* The lines of strings, each ended by a newline.
RECURSIVE Lines(_)
Lines(seq) == IF seq = <<>> THEN "" ELSE Head(seq) \o "\n" \o Lines(Tail(seq))

\* tokens_of and StripHashTags on the texts delivered, computed once.
TokensOfText == [raw \in Texts |-> tokens_of(raw)]

StrippedText == [raw \in Texts |-> StripHashTags(raw)]

NoCall ==
    [outcome |-> "none", stage |-> "none", raw |-> "", tokens |-> <<>>,
     text |-> "", stripped |-> FALSE, companies |-> <<>>,
     results |-> <<>>, opened |-> FALSE,
     header |-> FALSE, rows |-> <<>>, before |-> "", existed |-> FALSE]

\* What one call of twitter_callback does with the tweet (raw, url), given
\* where it fails and what analyze returns.  outcome is "skip_required",
\* "skip_ignored", "skip_nocompany", "written" (the function returns) or
\* "raised" (an error leaves the function, at stage).
Call(raw, url, fault, sentiment, lacking) ==
    LET c0 == [NoCall EXCEPT !.raw = raw, !.text = raw, !.before = file,
                             !.existed = file_exists]
        Raised(c, stage) == [c EXCEPT !.outcome = "raised", !.stage = stage]
    IN
    IF fault = "tokenize" THEN Raised(c0, "tokenize") ELSE
    LET tokens == TokensOfText[raw]
        c1 == [c0 EXCEPT !.tokens = tokens]
    IN
    IF SkipRequired(tokens) THEN [c1 EXCEPT !.outcome = "skip_required"] ELSE
    IF SkipIgnored(tokens) THEN [c1 EXCEPT !.outcome = "skip_ignored"] ELSE
    LET text == StrippedText[raw]
        c2 == [c1 EXCEPT !.text = text, !.stripped = TRUE]
    IN
    IF fault = "find_companies" THEN Raised(c2, "find_companies") ELSE
    LET companies == find_companies(text, url)
        c3 == [c2 EXCEPT !.companies = companies]
    IN
    IF companies = <<>> THEN [c3 EXCEPT !.outcome = "skip_nocompany"] ELSE
    IF fault = "analyze" THEN Raised(c3, "analyze") ELSE
    IF fault = "open" THEN Raised(c3, "open") ELSE
    LET results == analyze(companies, sentiment, lacking)
        c4 == [c3 EXCEPT !.results = results, !.opened = TRUE]
    IN
    IF fault = "write" THEN Raised(c4, "write") ELSE
    LET written == WriteRows(companies, results)
        c5 == [c4 EXCEPT !.header = HeaderMissing(file), !.rows = written.rows]
    IN
    IF written.raised THEN Raised(c5, "results") ELSE
    [c5 EXCEPT !.outcome = "written"]

\* The text a call appends to the file.  What is written to f is in the file
\* when the call is over, also when an error ended it.
Appended(c) ==
    (IF c.header THEN Header \o "\n" ELSE "") \o Lines(c.rows)

\* The file created at the start of every call.
FileExistsAfter_every_call(existed, c) == TRUE

\* open(FILE_NAME, "a") creates the file if it does not exist.
FileExistsAfter(existed, c) == existed \/ c.opened

(***************************************************************************)
(* The transport delivers a tweet: one call of twitter_callback.            *)
(***************************************************************************)
twitter_callback(raw, url, fault, sentiment, lacking) ==
    /\ pc = "session"
    /\ streaming
    /\ events < MaxEvents
    /\ cb' = Call(raw, url, fault, sentiment, lacking)
    /\ file' = file \o Appended(cb')
    /\ file_exists' = FileExistsAfter(file_exists, cb')
    /\ header_writes' = header_writes + (IF cb'.header THEN 1 ELSE 0)
    /\ streaming' \in (IF cb'.outcome = "raised" THEN TransportAfterError ELSE {TRUE})
    /\ events' = events + 1
    /\ file_before' = file
    /\ UNCHANGED <<runVars, args, mainVars, lookups>>

\* analyze is reached only by a call that does not fail before it.
Behaviours ==
    {b \in [fault : Faults, sentiment : Sentiments, lacking : LackingChoices] :
        b.fault # "none" => (b.sentiment = "positive" /\ b.lacking = {})}

NextCallback ==
    \E raw \in Texts, url \in Urls, b \in Behaviours :
        twitter_callback(raw, url, b.fault, b.sentiment, b.lacking)

(***************************************************************************)
(* The one-shot symbol lookup of the main block (--symbol without          *)
(* --news-headlines).  scrap_company_data returns the six values of the     *)
(* symbol.  The file is opened with mode "w", which empties it; the header  *)
(* test then reads the emptied file, and the header and the row are         *)
(* written.  FILE_NAME is built from the start time to the second, so the   *)
(* file may exist already, written by a run started within the same second. *)
(***************************************************************************)
scrap_company_data(symbol) ==
    <<symbol, "2019-01-02", "310.12", "305.50", "315.13", "11658600">>

lookup_fields == <<"symbol", "date", "last price", "low", "high", "volume">>

OpenForWriting(content) == ""

symbol_lookup(symbol) ==
    /\ lookups < MaxLookups
    /\ LET results == scrap_company_data(symbol)
           opened  == OpenForWriting(file)
           header  == IF ~Contains(opened, join(lookup_fields))
                         THEN join(lookup_fields) \o "\n" ELSE ""
       IN  file' = opened \o header \o join(results) \o "\n"
    /\ file_exists' = TRUE
    /\ file_before' = file
    /\ lookups' = lookups + 1
    /\ UNCHANGED <<runVars, args, mainVars, streaming, events, header_writes, cb>>

Init ==
    /\ pc = "session"
    /\ tries = 0
    /\ backoff_start = NoTime
    /\ now = NoTime
    /\ clock = 0
    /\ delay = 0
    /\ prev_now = NoTime
    /\ sessions = 1
    /\ sleeps = 0
    /\ sleep_sum = 0
    /\ resets = 0
    /\ gaps_under = TRUE
    /\ required_keywords \in RequiredChoices
    /\ ignored_keywords \in IgnoredChoices
    /\ file = ""
    /\ file_exists = FALSE
    /\ streaming = TRUE
    /\ events = 0
    /\ header_writes = 0
    /\ cb = NoCall
    /\ file_before = ""
    /\ lookups = 0
    /\ monitor = "running"
    /\ interrupted = FALSE

(***************************************************************************)
(* The main block calls monitor.start() before Main.run and monitor.stop()  *)
(* in the finally clause around it: the monitor is stopped when Main.run is *)
(* left, by its return ("done") or by an error passing through ("raised").  *)
(***************************************************************************)
MonitorAfterRun_no_finally(position, m) ==
    IF position = "done" THEN "stopped" ELSE m

MonitorAfterRun(position, m) ==
    IF position \in {"done", "raised"} THEN "stopped" ELSE m

(***************************************************************************)
(* run_session returns after d ticks; Main.run then reads the clock, starts *)
(* or resets the backoff sequence, and either gives up or calls backoff,    *)
(* which computes the delay and blocks in sleep.                            *)
(***************************************************************************)
run_session_returns(d) ==
    /\ pc = "session"
    /\ clock + d <= MaxClock
    /\ LET n      == clock + d
           start1 == IF tries = 0 THEN n ELSE backoff_start
           reset  == ResetDue(n, start1)
           tries2 == IF reset THEN 0 ELSE tries
           start2 == IF reset THEN n ELSE start1
       IN  /\ clock' = n
           /\ now' = n
           /\ prev_now' = now
           /\ gaps_under' = (gaps_under /\ (now # NoTime => n - now < BACKOFF_RESET_S))
           /\ tries' = tries2
           /\ backoff_start' = start2
           /\ resets' = IF reset THEN resets + 1 ELSE resets
           /\ IF GiveUp(tries2)
                 THEN /\ pc' = "done"
                      /\ UNCHANGED <<delay, sleeps, sleep_sum>>
                 ELSE /\ pc' = "sleep"
                      /\ delay' = backoff(tries2)
                      /\ sleeps' = sleeps + 1
                      /\ sleep_sum' = sleep_sum + backoff(tries2)
    /\ monitor' = MonitorAfterRun(pc', monitor)
    /\ UNCHANGED <<sessions, args, cbVars, interrupted>>

(***************************************************************************)
(* start_streaming fails with an error after d ticks: run_session has no    *)
(* handler and neither has Main.run, so the error leaves both.              *)
(***************************************************************************)
run_session_raises(d) ==
    /\ pc = "session"
    /\ "raised" \in StartStreamingOutcomes
    /\ clock + d <= MaxClock
    /\ clock' = clock + d
    /\ pc' = "raised"
    /\ monitor' = MonitorAfterRun(pc', monitor)
    /\ UNCHANGED <<tries, backoff_start, now, delay, prev_now, sessions,
                   sleeps, sleep_sum, resets, gaps_under, args, cbVars,
                   interrupted>>

(***************************************************************************)
(* sleep(delay) returns; Main.run increments tries and calls run_session.   *)
(***************************************************************************)
backoff_returns ==
    /\ pc = "sleep"
    /\ clock' = clock + delay
    /\ tries' = tries + 1
    /\ sessions' = sessions + 1
    /\ pc' = "session"
    /\ monitor' = MonitorAfterRun(pc', monitor)
    /\ UNCHANGED <<backoff_start, now, delay, prev_now, sleeps, sleep_sum,
                   resets, gaps_under, args, cbVars, interrupted>>

(***************************************************************************)
(* The user interrupts the process while Main.run blocks in run_session or  *)
(* in sleep: KeyboardInterrupt is raised there.  Neither backoff, nor       *)
(* run_session, nor Main.run has a handler, so it leaves Main.run and the   *)
(* finally clause of the main block runs.                                   *)
(***************************************************************************)
KeyboardInterrupt ==
    /\ pc \in {"session", "sleep"}
    /\ pc' = "raised"
    /\ interrupted' = TRUE
    /\ monitor' = MonitorAfterRun(pc', monitor)
    /\ UNCHANGED <<tries, backoff_start, now, clock, delay, prev_now,
                   sessions, sleeps, sleep_sum, resets, gaps_under, args,
                   cbVars>>

Next ==
    \/ \E d \in Durations : run_session_returns(d)
    \/ \E d \in Durations : run_session_raises(d)
    \/ backoff_returns

Spec == Init /\ [][Next]_vars

\* One streaming session: the tweets delivered to twitter_callback.
SpecCallback == Init /\ [][NextCallback]_vars

\* The file FILE_NAME under the processes started within the same second:
\* a streaming session and one-shot lookups.
NextFile ==
    \/ NextCallback
    \/ \E symbol \in LookupSymbols : symbol_lookup(symbol)

SpecFile == Init /\ [][NextFile]_vars

\* Main.run under the main block, with a user who may interrupt it.
NextInterrupt ==
    \/ Next
    \/ KeyboardInterrupt

SpecInterrupt == Init /\ [][NextInterrupt]_vars


(***************************************************************************)
(* Properties of Main.run (specification Spec).                             *)
(***************************************************************************)

\* C1: whenever Main.run sleeps with tries = t, t is in 0..11 and the delay
\* passed to sleep is 2^t ticks of 0.1 s; when the give-up check is reached
\* with tries = 12, the loop is left and there is no sleep.
C1_BackoffDelay ==
    /\ pc = "sleep" => (tries \in 0..11 /\ delay = 2^tries)
    /\ (pc \in {"sleep", "done"} /\ tries >= 12) => pc = "done"

C1_Witness == pc = "sleep" /\ tries = 11 /\ delay = 2048

C3_ResetAfterLongGap ==
    (/\ pc \in {"sleep", "done"}
     /\ prev_now # NoTime
     /\ now - prev_now > 1800 * TicksPerSecond)
        => (tries = 0 /\ backoff_start = now /\ pc = "sleep" /\ delay = 1)

C3_Witness ==
    /\ pc = "sleep"
    /\ prev_now # NoTime
    /\ now - prev_now > 1800 * TicksPerSecond
    /\ resets = 1

\* C4: Main.run leaves its loop only through the give-up check, in a state
\* where tries has reached 12.
C4_LeavesOnlyByGiveUp ==
    pc \notin {"session", "sleep"} => (pc = "done" /\ tries = 12)

\* C5: a failure of start_streaming never leaves run_session as a raised
\* error into Main.run.
C5_SessionErrorReturns == pc # "raised"

\* C14: tries is always in 0..12; the sleep-and-retry step, which leads
\* from one give-up check to the next, adds exactly 1 to tries, and a session
\* return leaves tries as it is or sets it to 0 by the reset rule, the
\* return being more than 1800 s after backoff_start.
C14_TriesInRange ==
    /\ [](tries \in 0..12)
    /\ [][/\ pc = "sleep" => (pc' = "session" /\ tries' = tries + 1)
          /\ (pc = "session" /\ pc' \in {"sleep", "done"}) =>
                \/ tries' = tries
                \/ /\ tries' = 0
                   /\ tries > 0
                   /\ resets' = resets + 1
                   /\ now' - backoff_start > 1800 * TicksPerSecond]_vars

\* A run whose tries were reset once and later grew to 12.
C14_Witness == pc = "done" /\ tries = 12 /\ resets = 1 /\ sessions > 13

\* C18: the reset rule is tested before the give-up rule: a session that
\* returns with tries = 12 more than 1800 s after backoff_start does not stop
\* Main.run; tries becomes 0, backoff_start becomes now and Main.run sleeps
\* one tick (0.1 s).  Main.run therefore stops only at the end of a sequence
\* of 12 retries that took at most 1800 s.
C18_ResetBeforeGiveUp ==
    /\ [][(/\ pc = "session"
           /\ tries = 12
           /\ pc' \in {"sleep", "done"}
           /\ now' - backoff_start > 1800 * TicksPerSecond)
             => (/\ pc' = "sleep"
                 /\ tries' = 0
                 /\ backoff_start' = now'
                 /\ delay' = 1
                 /\ sleeps' = sleeps + 1)]_vars
    /\ [](pc = "done" =>
             (tries = 12 /\ now - backoff_start <= 1800 * TicksPerSecond))

\* The thirteenth session returns late: a thirteenth sleep, of one tick.
C18_Witness ==
    /\ pc = "sleep"
    /\ tries = 0
    /\ delay = 1
    /\ sessions = 13
    /\ sleeps = 13
    /\ resets = 1
    /\ backoff_start = now

(***************************************************************************)
(* Properties of Main.twitter_callback (specification SpecCallback).        *)
(***************************************************************************)
Keywords(s) == Elements(split(s))

HasTokenIn(tokens, keywords) == \E i \in 1..Len(tokens) : tokens[i] \in keywords

\* C6: no error leaves twitter_callback.
C6_CallbackNeverRaises == cb.outcome # "raised"

\* C7, as claimed: the header string occurs at most once in the file.
C7_HeaderStringOnce == Occurrences(file, Header) <= 1

\* C7, amended: the header line is written at most once, by a call that finds
\* the file's content without the header string, and it is the first line of
\* the file.
C7_HeaderWrittenOnce ==
    /\ header_writes <= 1
    /\ cb.header => ~Contains(cb.before, Header)
    /\ header_writes = 0 => file = ""
    /\ header_writes = 1 =>
          SubSeq(file, 1, Len(Header) + 1) = Header \o "\n"

C7_Witness ==
    /\ events = 2
    /\ header_writes = 1
    /\ cb.outcome = "written"
    /\ cb.before # ""
    /\ ~cb.header

\* C8: with required keywords given, a tweet none of whose tokens is a
\* required keyword writes nothing: the call returns before the tags are
\* stripped and before find_companies.
C8_RequiredMissSkips ==
    (/\ required_keywords # ""
     /\ cb.outcome # "none"
     /\ ~HasTokenIn(cb.tokens, Keywords(required_keywords)))
        => (/\ cb.rows = <<>>
            /\ ~cb.header
            /\ file = cb.before
            /\ ~cb.stripped
            /\ cb.companies = <<>>)

C8_Witness ==
    /\ cb.outcome = "skip_required"
    /\ cb.tokens # <<>>
    /\ Contains(cb.raw, "Tesla")
    /\ file = cb.before

\* C9: with ignored keywords given, a tweet with a token that is an ignored
\* keyword writes nothing, also when it has a required keyword and names a
\* known company.
C9_IgnoredHitSkips ==
    (/\ ignored_keywords # ""
     /\ cb.outcome # "none"
     /\ HasTokenIn(cb.tokens, Keywords(ignored_keywords)))
        => (/\ cb.rows = <<>>
            /\ ~cb.header
            /\ file = cb.before)

C9_Witness ==
    /\ cb.outcome = "skip_ignored"
    /\ required_keywords # ""
    /\ HasTokenIn(cb.tokens, Keywords(required_keywords))
    /\ Contains(cb.raw, "Tesla")
    /\ file = cb.before

\* A required keyword stands in the text as a hashtag of its own.
HashtagOf(raw, keywords) ==
    \E k \in keywords :
        k # "" /\ Contains(" " \o raw \o " ", " #" \o k \o " ")

\* C10: the filters are decided on the tokens of the original text: a tweet
\* with a required keyword as a hashtag passes the required filter, and the
\* text is changed by the stripping only in a call that passed both filters.
C10_FilterBeforeStrip ==
    /\ (/\ required_keywords # ""
        /\ cb.outcome # "none"
        /\ cb.stage # "tokenize"
        /\ HashtagOf(cb.raw, Keywords(required_keywords)))
           => cb.outcome # "skip_required"
    /\ cb.text # cb.raw => cb.stripped
    /\ cb.stripped =>
          /\ cb.outcome \notin {"skip_required", "skip_ignored"}
          /\ required_keywords # "" =>
                HasTokenIn(cb.tokens, Keywords(required_keywords))
          /\ ignored_keywords # "" =>
                ~HasTokenIn(cb.tokens, Keywords(ignored_keywords))

C10_Witness ==
    /\ required_keywords = "TSLA"
    /\ cb.raw = "#TSLA up"
    /\ cb.stripped
    /\ cb.text = "up"
    /\ ~Contains(cb.text, "TSLA")
    /\ cb.outcome = "skip_nocompany"


\* The row of the i-th mention of the last call: symbol, name, sentiment,
\* opinion, tweet, url.
ExpectedRow(i) ==
    LET company == cb.companies[i]
        values  == cb.results[company.symbol]
    IN  company.symbol \o "," \o company.name \o "," \o values[1] \o "," \o
        values[2] \o "," \o company.tweet \o "," \o company.url

TeslaSurges ==
    /\ required_keywords = ""
    /\ ignored_keywords = ""
    /\ cb.raw = "Tesla $TSLA surges"
    /\ cb.outcome = "written"
    /\ Len(cb.companies) = 1
    /\ cb.companies[1].symbol = "TSLA"
    /\ cb.companies[1].name = "Tesla Inc."
    /\ cb.companies[1].tweet = cb.text
    /\ cb.results["TSLA"] = <<"positive", "bullish">>

C13_InterruptStops ==
    /\ [](interrupted => (pc = "raised" /\ monitor = "stopped"))
    /\ [][interrupted => (sessions' = sessions /\ sleeps' = sleeps /\ pc' = pc)]_vars

\* Interrupted during the sleep that follows the second session.
C13_Witness ==
    /\ interrupted
    /\ monitor = "stopped"
    /\ sessions = 2
    /\ sleeps = 2
    /\ tries = 1


\* The lines of the rows of the first k mentions, in the order of the mentions.
RECURSIVE ExpectedLines(_)
ExpectedLines(k) ==
    IF k = 0 THEN "" ELSE ExpectedLines(k - 1) \o ExpectedRow(k) \o "\n"

\* C15: after an event, the file is the file as it was before the event (with
\* the rows of all earlier events), then the header if the event wrote one,
\* then the rows of the event, one per mention in the order of find_companies,
\* with nothing in between.
C15_RowsInMentionOrder ==
    /\ cb.outcome # "none" =>
          file = cb.before
                    \o (IF cb.header THEN Header \o "\n" ELSE "")
                    \o ExpectedLines(Len(cb.rows))
    /\ cb.outcome = "written" => Len(cb.rows) = Len(cb.companies)

\* The second event has two mentions and comes after an event that wrote rows.
C15_Witness ==
    /\ cb.outcome = "written"
    /\ events = 2
    /\ Len(cb.before) > Len(Header) + 1
    /\ ~cb.header
    /\ Len(cb.rows) = 2
    /\ cb.companies[1].symbol = "TSLA"
    /\ cb.companies[2].symbol = "AAPL"


\* No token is one of the keywords, but some token is one but for its case.
CaseOnlyHit(tokens, keywords) ==
    /\ ~HasTokenIn(tokens, keywords)
    /\ \E i \in 1..Len(tokens) : lower(tokens[i]) \in {lower(k) : k \in keywords}

C16_RequiredCaseSkipped ==
    /\ required_keywords = "tesla"
    /\ CaseOnlyHit(cb.tokens, Keywords(required_keywords))
    /\ cb.outcome = "skip_required"


(***************************************************************************)
(* Properties of the file under both modes (specification SpecFile).        *)
(***************************************************************************)
IsPrefix(a, b) == Len(a) <= Len(b) /\ SubSeq(b, 1, Len(a)) = a

\* C17: for every write operation, of twitter_callback and of the one-shot
\* symbol lookup, the file's content before the operation is a prefix of its
\* content after it.
C17_AppendOnly == IsPrefix(file_before, file)


(***************************************************************************)
(* Further properties of Main.twitter_callback (specification SpecCallback).*)
(***************************************************************************)

\* C19: a tweet skipped by the required filter, by the ignored filter or for
\* naming no company leaves the file as it was: the file is not opened, not
\* created if it did not exist, and neither a header nor a row is written.
C19_SkipLeavesFile ==
    cb.outcome \in {"skip_required", "skip_ignored", "skip_nocompany"} =>
        /\ file = cb.before
        /\ file_exists = cb.existed
        /\ ~cb.opened
        /\ ~cb.header
        /\ cb.rows = <<>>

\* Two tweets skipped, the second for naming no company: still no file.
C19_Witness ==
    /\ events = 2
    /\ cb.outcome = "skip_nocompany"
    /\ ~cb.existed
    /\ ~file_exists
    /\ file = ""

====
